---- MODULE Spec2Model ----
(***************************************************************************)
(* The DirectShow sink filters of webmlive: AudioSinkPin/AudioSinkFilter   *)
(* (encoder/win/audio_sink_filter.cc) and VideoSinkPin/VideoSinkFilter     *)
(* (http_client/win/video_sink_filter.cc).                                 *)
(*                                                                         *)
(* One behaviour follows one sink filter.  The two filters share no state  *)
(* (each owns its pin, its lock and its buffer), so |endpoint| is chosen   *)
(* in Init and says which of the two the behaviour is about.               *)
(*                                                                         *)
(* Every method is an operator from the members it reads and its          *)
(* arguments to the HRESULT it returns and the members it leaves; every    *)
(* public entry point is one action that applies its method to the state.  *)
(* Each action records the entry point in |op|, the HRESULT it returned in *)
(* |hr|, what it wrote through an out pointer in |out_config| and what it  *)
(* handed to the registered callback in |cb_calls| / |cb_buffer|.          *)
(***************************************************************************)
EXTENDS Integers, Sequences, FiniteSets, TLC

VARIABLES
    endpoint,           \* "audio" or "video": the filter this behaviour follows
    m_State,            \* CBaseFilter::m_State
    m_Connected,        \* the pin completed a connection (CBasePin::m_Connected)
    requested_config_,  \* {Audio,Video}SinkPin::requested_config_
    actual_config_,     \* {Audio,Video}SinkPin::actual_config_
    sample_buffer_,     \* AudioSinkFilter::sample_buffer_
    frame_,             \* VideoSinkFilter::frame_
    op,                 \* the entry point called last
    hr,                 \* the HRESULT it returned
    out_config,         \* what config() stored through |ptr_config|
    out_media_type,     \* what GetMediaType left in |ptr_media_type|
    cb_calls,           \* calls of the registered callback made by the last entry point
    cb_buffer,          \* the buffer the callback was handed
    cb_return,          \* the status the callback returned (0 when not called)
    time_hr,            \* what GetTime / GetMediaTime returned ("none" when not called)
    ingest_hr,          \* what OnSamplesReceived / OnFrameReceived returned to Receive
    log_error,          \* whether the last entry point wrote a LOG(ERROR) line
    accepted,           \* history: descriptor of the proposal accepted last
    ingested,           \* history: the buffer or frame as the last ingest left it
    filter_lock_,       \* {Audio,Video}SinkFilter::filter_lock_: its holder, or "free"
    pc,                 \* where each thread stands inside the entry point it called
    arg,                \* the argument each thread passed to that entry point
    calls,              \* history: how many calls the threads have made
    lock_order,         \* history: the deliveries in the order they took filter_lock_
    cb_order            \* history: the callback invocations in the order made

vars == <<endpoint, m_State, m_Connected, requested_config_, actual_config_,
          sample_buffer_, frame_, op, hr, out_config, out_media_type,
          cb_calls, cb_buffer,
          cb_return, time_hr, ingest_hr, log_error, accepted, ingested,
          filter_lock_,
          pc, arg, calls, lock_order, cb_order>>

\* What the threads add to the state of the filter.
threads == <<filter_lock_, pc, arg, calls, lock_order, cb_order>>

\* The upstream source delivers from two threads; the application reads and
\* sets the configuration from its own; the graph negotiates from a fourth.
Threads == {"stream1", "stream2", "app", "negotiator"}

-----------------------------------------------------------------------------
(* Bounds of the model. *)

\* Sample times are the multiples 1..MaxTime of 7500 reference-time units.
MaxTime == 2
\* Delivered samples carry no byte or MaxLen bytes.
MaxLen == 1

-----------------------------------------------------------------------------
(* HRESULT *)

FailureCodes ==
    {"VFW_E_TYPE_NOT_ACCEPTED", "E_INVALIDARG", "VFW_E_NOT_STOPPED",
     "VFW_E_WRONG_STATE", "E_FAIL", "E_POINTER", "VFW_E_SAMPLE_TIME_NOT_SET",
     "E_OUTOFMEMORY"}

FAILED(h) == h \in FailureCodes

SUCCEEDED(h) == ~FAILED(h)

-----------------------------------------------------------------------------
(* Format tags and time conversion. *)

WAVE_FORMAT_PCM == 1
WAVE_FORMAT_IEEE_FLOAT == 3
WAVE_FORMAT_EXTENSIBLE == 65534

\* REFERENCE_TIME units (100 ns) per millisecond.
kTicksPerMillisecond == 10000

\* C++ integer division: truncates toward zero.
CDiv(a, b) == IF a >= 0 THEN a \div b ELSE -((-a) \div b)

media_time_to_milliseconds(t) == CDiv(t, kTicksPerMillisecond)

TimeValues == {k * 7500 : k \in 1..MaxTime}

-----------------------------------------------------------------------------
(* Audio: descriptors and proposals. *)

\* AudioConfig(): the empty descriptor.
EmptyAudioConfig ==
    [format_tag |-> 0, channels |-> 0, sample_rate |-> 0,
     bytes_per_second |-> 0, block_align |-> 0, bits_per_sample |-> 0,
     valid_bits_per_sample |-> 0, channel_mask |-> 0]

\* The WAVEFORMATEX / WAVEFORMATEXTENSIBLE payload of a proposal: 16 bit,
\* 44.1 kHz; the extensible-only members are present only under the
\* extensible tag.
WaveFormat(tag, ch) ==
    [valid |-> TRUE, format_tag |-> tag, channels |-> ch,
     sample_rate |-> 44100, bytes_per_second |-> 44100 * ch * 2,
     block_align |-> ch * 2, bits_per_sample |-> 16,
     valid_bits_per_sample |-> IF tag = WAVE_FORMAT_EXTENSIBLE THEN 12 ELSE 0,
     channel_mask |-> IF tag = WAVE_FORMAT_EXTENSIBLE THEN 2 + ch ELSE 0]

\* A payload that is no wave format record.
BadWaveFormat == [WaveFormat(0, 0) EXCEPT !.valid = FALSE]

\* The payloads proposed: stereo PCM, mono float, stereo extensible, mono
\* ADPCM (format tag 2), and one that does not parse.
WaveFormats ==
    {WaveFormat(WAVE_FORMAT_PCM, 2), WaveFormat(WAVE_FORMAT_IEEE_FLOAT, 1),
     WaveFormat(WAVE_FORMAT_EXTENSIBLE, 2), WaveFormat(2, 1),
     BadWaveFormat}

\* kInputSubTypes
kInputSubTypes == {"MEDIASUBTYPE_IEEE_FLOAT", "MEDIASUBTYPE_PCM"}

\* The AM_MEDIA_TYPE an upstream pin can propose.  "NULL" is a GUID the
\* accessor could not supply.
AllAudioProposals ==
    [majortype : {"MEDIATYPE_Audio", "MEDIATYPE_Video"},
     bTemporalCompression : BOOLEAN,
     subtype : kInputSubTypes \cup {"MEDIASUBTYPE_I420", "NULL"},
     formattype : {"FORMAT_WaveFormatEx", "FORMAT_VideoInfo"},
     format : WaveFormats]

\* The proposals made to the audio sink.  CheckMediaType reads the major
\* type first, then the temporal compression flag, then the rest; what it
\* reads after a member that already rejects the proposal has one value
\* here, the acceptable one (PCM, FORMAT_WaveFormatEx, stereo PCM).
AudioProposals ==
    { p \in AllAudioProposals :
        (p.majortype # "MEDIATYPE_Audio" \/ p.bTemporalCompression) =>
            /\ p.majortype = "MEDIATYPE_Audio" => p.bTemporalCompression
            /\ p.majortype # "MEDIATYPE_Audio" => ~p.bTemporalCompression
            /\ p.subtype = "MEDIASUBTYPE_PCM"
            /\ p.formattype = "FORMAT_WaveFormatEx"
            /\ p.format = WaveFormat(WAVE_FORMAT_PCM, 2) }

\* The AudioConfig values the encoder asks for.
AudioRequests ==
    {[EmptyAudioConfig EXCEPT !.channels = c, !.sample_rate = 44100]
        : c \in {1, 2}}

-----------------------------------------------------------------------------
(* Video: descriptors and proposals. *)

\* WebmEncoderConfig::VideoCaptureConfig(): the empty descriptor.
EmptyVideoConfig == [width |-> 0, height |-> 0]

\* MAKEFOURCC('I','4','2','0') and another four-character code ('YUY2').
FourCC_I420 == "I420"
FourCC_YUY2 == "YUY2"

\* The VIDEOINFOHEADER / VIDEOINFOHEADER2 payload; biHeight is negative for
\* a top-down image.
VideoInfo(four_cc, w, h) ==
    [present |-> TRUE, biCompression |-> four_cc, biWidth |-> w,
     biHeight |-> h]

\* The payloads proposed: I420 bottom-up, I420 top-down, and YUY2.
VideoInfos ==
    {VideoInfo(FourCC_I420, 320, 240), VideoInfo(FourCC_I420, 640, -480),
     VideoInfo(FourCC_YUY2, 320, 240)}

\* CMediaType::Format() returned NULL.
NoVideoInfo ==
    [present |-> FALSE, biCompression |-> FourCC_YUY2, biWidth |-> 0,
     biHeight |-> 0]

\* The AM_MEDIA_TYPE an upstream pin can propose.
AllVideoProposals ==
    [majortype : {"MEDIATYPE_Audio", "MEDIATYPE_Video"},
     subtype : {"MEDIASUBTYPE_I420", "MEDIASUBTYPE_YUY2", "NULL"},
     formattype : {"FORMAT_VideoInfo", "FORMAT_VideoInfo2",
                   "FORMAT_WaveFormatEx"},
     format : VideoInfos \cup {NoVideoInfo}]

\* The proposals made to the video sink.  CheckMediaType reads the major
\* type first; what it reads after a major type that already rejects the
\* proposal has one value here, the acceptable one.
VideoProposals ==
    { p \in AllVideoProposals :
        p.majortype # "MEDIATYPE_Video" =>
            /\ p.subtype = "MEDIASUBTYPE_I420"
            /\ p.formattype = "FORMAT_VideoInfo"
            /\ p.format = VideoInfo(FourCC_I420, 320, 240) }

VideoRequests == {[width |-> 320, height |-> 240], [width |-> 640, height |-> 480]}

-----------------------------------------------------------------------------
(* Samples. *)

\* An IMediaSample as the sink reads it: GetPointer ("valid", a "null"
\* pointer, or a failing call), GetActualDataLength, GetTime / GetMediaTime
\* with the result code, and what the environment answers when the buffer is
\* allocated (init_status) and when the callback returns (cb_status).
AllSamples ==
    [pointer : {"valid", "null", "error"},
     length : {0, MaxLen},
     time_hr : {"S_OK", "VFW_S_NO_STOP_TIME", "VFW_E_SAMPLE_TIME_NOT_SET"},
     start_time : TimeValues,
     end_time : TimeValues,
     init_status : {0, 1},
     cb_status : {0, 1}]

\* The sink asks in the order pointer and length, times, buffer, callback.
\* A question it asks after an answer that is already unusable has one
\* answer here, the usable one: such a sample differs from a good sample in
\* nothing but the answers listed before.  With VFW_S_NO_STOP_TIME the end
\* time is whatever GetTime left there.
Samples ==
    { s \in AllSamples :
        /\ s.end_time >= s.start_time
        /\ FAILED(s.time_hr) => s.end_time = s.start_time
        /\ (s.pointer # "valid" \/ s.length = 0) =>
               s.time_hr = "S_OK" /\ s.start_time = 7500 /\ s.end_time = 7500
        /\ (s.pointer # "valid" \/ s.length = 0 \/ FAILED(s.time_hr)) =>
               s.init_status = 0
        /\ (s.pointer # "valid" \/ s.length = 0 \/ FAILED(s.time_hr)
               \/ s.init_status # 0) => s.cb_status = 0 }

\* The video sink asks in the order pointer, media times, frame (which is
\* where the length is read); it asks the callback nothing.
VideoSamples ==
    { s \in AllSamples :
        /\ s.end_time = s.start_time
        /\ s.time_hr # "VFW_S_NO_STOP_TIME"
        /\ s.pointer # "valid" =>
               s.time_hr = "S_OK" /\ s.start_time = 7500 /\ s.length = MaxLen
        /\ (s.pointer # "valid" \/ FAILED(s.time_hr)) => s.init_status = 0
        /\ s.cb_status = 0 }

\* sample_buffer_ before the first delivery.
EmptyAudioBuffer ==
    [config |-> EmptyAudioConfig, timestamp |-> 0, duration |-> 0,
     buffer_length |-> 0]

\* frame_ before the first delivery.
EmptyVideoFrame ==
    [width |-> 0, height |-> 0, timestamp |-> 0, buffer_length |-> 0]

NoProposal == [none |-> TRUE]

\* The CMediaType a caller hands to GetMediaType, as constructed.
NoMediaType ==
    [majortype |-> "GUID_NULL", formattype |-> "GUID_NULL",
     subtype |-> "GUID_NULL"]

-----------------------------------------------------------------------------
Init ==
    /\ endpoint \in {"audio", "video"}
    /\ m_State = "State_Stopped"
    /\ m_Connected = FALSE
    /\ requested_config_ =
         IF endpoint = "audio" THEN EmptyAudioConfig ELSE EmptyVideoConfig
    /\ actual_config_ =
         IF endpoint = "audio" THEN EmptyAudioConfig ELSE EmptyVideoConfig
    /\ sample_buffer_ = EmptyAudioBuffer
    /\ frame_ = EmptyVideoFrame
    /\ op = "ctor"
    /\ hr = "S_OK"
    /\ out_config =
         IF endpoint = "audio" THEN EmptyAudioConfig ELSE EmptyVideoConfig
    /\ out_media_type = NoMediaType
    /\ cb_calls = 0
    /\ cb_buffer = EmptyAudioBuffer
    /\ cb_return = 0
    /\ time_hr = "none"
    /\ ingest_hr = "none"
    /\ log_error = FALSE
    /\ accepted = NoProposal
    /\ ingested =
         IF endpoint = "audio" THEN EmptyAudioBuffer ELSE EmptyVideoFrame
    /\ filter_lock_ = "free"
    /\ pc = [t \in Threads |-> "idle"]
    /\ arg = [t \in Threads |-> NoProposal]
    /\ calls = 0
    /\ lock_order = <<>>
    /\ cb_order = <<>>

\* What an entry point that neither stores a config nor calls back leaves in
\* the per-call outputs.
NoOutputs ==
    /\ out_config' =
         IF endpoint = "audio" THEN EmptyAudioConfig ELSE EmptyVideoConfig
    /\ out_media_type' = NoMediaType
    /\ cb_calls' = 0
    /\ cb_buffer' = EmptyAudioBuffer
    /\ cb_return' = 0
    /\ time_hr' = "none"
    /\ ingest_hr' = "none"
    /\ log_error' = FALSE

-----------------------------------------------------------------------------
(* AudioSinkPin *)

\* kNumInputSubTypes: the length of kInputSubTypes.
kNumInputSubTypes == 2

\* kInputSubTypes[i] for an index inside the array.
kInputSubTypeAt(i) ==
    IF i = 0 THEN "MEDIASUBTYPE_IEEE_FLOAT" ELSE "MEDIASUBTYPE_PCM"

\* What a read of kInputSubTypes[i] at an index outside the array can give:
\* whatever lies behind the array.
BeyondInputSubTypes ==
    {"MEDIASUBTYPE_IEEE_FLOAT", "MEDIASUBTYPE_PCM", "GUID_other"}

\* AudioSinkPin::GetMediaType.  |beyond| is what a read behind the array
\* gives; |read| is the index of kInputSubTypes that was read (-1: none).
AudioSinkPin_GetMediaType(type_index, ptr_ok, beyond) ==
    IF type_index < 0 \/ ~ptr_ok
    THEN [hr |-> "E_INVALIDARG", type |-> NoMediaType, read |-> -1]
    ELSE IF type_index > kNumInputSubTypes
    THEN [hr |-> "VFW_S_NO_MORE_ITEMS", type |-> NoMediaType, read |-> -1]
    ELSE [hr |-> "S_OK",
          type |-> [majortype |-> "MEDIATYPE_Audio",
                    formattype |-> "FORMAT_WaveFormatEx",
                    subtype |-> IF type_index < kNumInputSubTypes
                                THEN kInputSubTypeAt(type_index)
                                ELSE beyond],
          read |-> type_index]

\* AudioMediaType::Init: 0 when the payload parses as a wave format record.
AudioMediaType_Init(p) == IF p.format.valid THEN 0 ELSE 1

\* The HRESULT of AudioSinkPin::CheckMediaType, check by check.
AudioCheckMediaType_hr(p) ==
    IF p.majortype # "MEDIATYPE_Audio" THEN "VFW_E_TYPE_NOT_ACCEPTED"
    ELSE IF p.bTemporalCompression THEN "VFW_E_TYPE_NOT_ACCEPTED"
    ELSE IF p.subtype = "NULL" \/ p.formattype = "NULL" THEN "E_INVALIDARG"
    \* format_guid != FORMAT_WaveFormatEx is logged and nothing else.
    ELSE IF p.subtype \notin kInputSubTypes THEN "VFW_E_TYPE_NOT_ACCEPTED"
    ELSE IF AudioMediaType_Init(p) # 0 THEN "E_INVALIDARG"
    ELSE IF /\ p.format.format_tag # WAVE_FORMAT_PCM
            /\ p.format.format_tag # WAVE_FORMAT_IEEE_FLOAT
            /\ p.format.format_tag # WAVE_FORMAT_EXTENSIBLE
         THEN "VFW_E_TYPE_NOT_ACCEPTED"
    ELSE "S_OK"

\* The assignments to actual_config_ at the end of CheckMediaType: six
\* members always, the two extensible members only under the extensible tag.
AudioStoreActual(cfg, f) ==
    LET base == [cfg EXCEPT !.format_tag = f.format_tag,
                            !.channels = f.channels,
                            !.sample_rate = f.sample_rate,
                            !.bytes_per_second = f.bytes_per_second,
                            !.block_align = f.block_align,
                            !.bits_per_sample = f.bits_per_sample]
    IN  IF f.format_tag = WAVE_FORMAT_EXTENSIBLE
        THEN [base EXCEPT !.valid_bits_per_sample = f.valid_bits_per_sample,
                          !.channel_mask = f.channel_mask]
        ELSE base

\* Mutant: the assignments moved above the format tag check.
AudioSinkPin_CheckMediaType_StoresBeforeTagCheck(actual, p) ==
    LET r == AudioCheckMediaType_hr(p)
        reached == /\ p.majortype = "MEDIATYPE_Audio"
                   /\ ~p.bTemporalCompression
                   /\ p.subtype \in kInputSubTypes
                   /\ AudioMediaType_Init(p) = 0
    IN  [hr |-> r,
         actual_config_ |-> IF reached THEN AudioStoreActual(actual, p.format)
                            ELSE actual]

\* AudioSinkPin::CheckMediaType on a pin whose actual_config_ is |actual|.
AudioSinkPin_CheckMediaType(actual, p) ==
    LET r == AudioCheckMediaType_hr(p) IN
    [hr |-> r,
     actual_config_ |-> IF r = "S_OK" THEN AudioStoreActual(actual, p.format)
                        ELSE actual]

\* AudioSinkPin::config
AudioSinkPin_config(actual, ptr_ok) ==
    IF ~ptr_ok THEN [hr |-> "E_POINTER", out |-> EmptyAudioConfig]
    ELSE [hr |-> "S_OK", out |-> actual]

\* Mutant: actual_config_ is not reset.
AudioSinkPin_set_config_KeepsActual(requested, actual, config) ==
    [hr |-> "S_OK", requested_config_ |-> config, actual_config_ |-> actual]

\* AudioSinkPin::set_config
AudioSinkPin_set_config(requested, actual, config) ==
    [hr |-> "S_OK", requested_config_ |-> config,
     actual_config_ |-> EmptyAudioConfig]

-----------------------------------------------------------------------------
(* AudioSinkFilter *)

\* AudioSinkFilter::config
AudioSinkFilter_config(actual, ptr_ok) == AudioSinkPin_config(actual, ptr_ok)

\* Mutant: the run state is not checked.
AudioSinkFilter_set_config_NoStateCheck(state, requested, actual, config) ==
    AudioSinkPin_set_config(requested, actual, config)

\* AudioSinkFilter::set_config in run state |state|.
AudioSinkFilter_set_config(state, requested, actual, config) ==
    IF state # "State_Stopped"
    THEN [hr |-> "VFW_E_NOT_STOPPED", requested_config_ |-> requested,
          actual_config_ |-> actual]
    ELSE AudioSinkPin_set_config(requested, actual, config)

\* AudioBuffer::Init: the buffer holding a copy of |length| bytes.
AudioBuffer_Init(config, timestamp, duration, length) ==
    [config |-> config, timestamp |-> timestamp, duration |-> duration,
     buffer_length |-> length]

\* Mutant: the duration is converted after the subtraction.
AudioSampleTimes_ConvertsDifference(s) ==
    [timestamp |-> media_time_to_milliseconds(s.start_time),
     duration |-> IF s.time_hr # "VFW_S_NO_STOP_TIME"
                  THEN media_time_to_milliseconds(s.end_time - s.start_time)
                  ELSE 0]

\* Mutant: the timestamp counts down, converted from the negated start time.
AudioSampleTimes_CountsDown(s) ==
    LET timestamp == media_time_to_milliseconds(0 - s.start_time)
    IN  [timestamp |-> timestamp,
         duration |-> IF s.time_hr # "VFW_S_NO_STOP_TIME"
                      THEN media_time_to_milliseconds(s.end_time) - timestamp
                      ELSE 0]

\* Mutant: the end time is used also when GetTime reported no stop time.
AudioSampleTimes_IgnoresNoStopTime(s) ==
    LET timestamp == media_time_to_milliseconds(s.start_time) IN
    [timestamp |-> timestamp,
     duration |-> media_time_to_milliseconds(s.end_time) - timestamp]

\* timestamp and duration as OnSamplesReceived computes them from GetTime.
AudioSampleTimes(s) ==
    LET timestamp == media_time_to_milliseconds(s.start_time) IN
    [timestamp |-> timestamp,
     duration |-> IF s.time_hr # "VFW_S_NO_STOP_TIME"
                  THEN media_time_to_milliseconds(s.end_time) - timestamp
                  ELSE 0]

\* Mutant: a callback status that is not 0 fails the ingest.
AudioSinkFilter_OnSamplesReceived_PropagatesCallbackStatus(actual, buffer, s) ==
    LET untouched(h, th) == [hr |-> h, buffer |-> buffer, calls |-> 0,
                             arg |-> EmptyAudioBuffer, status |-> 0,
                             time_hr |-> th]
        t == AudioSampleTimes(s)
        filled == AudioBuffer_Init(actual, t.timestamp, t.duration, s.length)
    IN  IF s.pointer # "valid" \/ s.length <= 0
        THEN untouched(IF s.pointer = "error" THEN "E_POINTER" ELSE "E_FAIL",
                       "none")
        ELSE IF FAILED(s.time_hr) THEN untouched(s.time_hr, s.time_hr)
        ELSE IF s.init_status # 0 THEN untouched("E_FAIL", s.time_hr)
        ELSE [hr |-> IF s.cb_status # 0 THEN "E_FAIL" ELSE "S_OK",
              buffer |-> filled, calls |-> 1, arg |-> filled,
              status |-> s.cb_status, time_hr |-> s.time_hr]

\* AudioSinkFilter::OnSamplesReceived: the HRESULT, the sample buffer it
\* leaves, the callback calls it makes, the buffer they are handed and the
\* status the callback returns.
AudioSinkFilter_OnSamplesReceived(actual, buffer, s) ==
    LET untouched(h, th) == [hr |-> h, buffer |-> buffer, calls |-> 0,
                             arg |-> EmptyAudioBuffer, status |-> 0,
                             time_hr |-> th]
        t == AudioSampleTimes(s)
        filled == AudioBuffer_Init(actual, t.timestamp, t.duration, s.length)
    IN  IF s.pointer # "valid" \/ s.length <= 0
        THEN untouched(IF s.pointer = "error" THEN "E_POINTER" ELSE "E_FAIL",
                       "none")
        ELSE IF FAILED(s.time_hr) THEN untouched(s.time_hr, s.time_hr)
        ELSE IF s.init_status # 0 THEN untouched("E_FAIL", s.time_hr)
        \* The callback's status is logged when it is not 0, and dropped.
        ELSE [hr |-> "S_OK", buffer |-> filled, calls |-> 1, arg |-> filled,
              status |-> s.cb_status, time_hr |-> s.time_hr]

\* CBaseInputPin::Receive: refuses samples while the filter is stopped.
CBaseInputPin_Receive(state) ==
    IF state = "State_Stopped" THEN "VFW_E_WRONG_STATE" ELSE "S_OK"

\* Mutant: every failure of the base class is logged as an error.
AudioSinkPin_Receive_LogsWrongState(state, actual, buffer, s) ==
    LET base == CBaseInputPin_Receive(state)
        r == AudioSinkFilter_OnSamplesReceived(actual, buffer, s)
    IN  IF FAILED(base)
        THEN [hr |-> base, ingest_hr |-> "none", buffer |-> buffer,
              calls |-> 0, arg |-> EmptyAudioBuffer, status |-> 0,
              time_hr |-> "none", log_error |-> TRUE]
        ELSE [hr |-> "S_OK", ingest_hr |-> r.hr, buffer |-> r.buffer,
              calls |-> r.calls, arg |-> r.arg, status |-> r.status,
              time_hr |-> r.time_hr,
              log_error |-> (FAILED(r.hr) \/ r.status # 0)]

\* AudioSinkPin::Receive: |ingest_hr| is what OnSamplesReceived returned
\* ("none" when it was not called), |hr| what Receive returns, |log_error|
\* whether a LOG(ERROR) line was written: for a failure of the base class
\* other than VFW_E_WRONG_STATE, for a failure of OnSamplesReceived, and
\* inside OnSamplesReceived for a callback status that is not 0.
AudioSinkPin_Receive(state, actual, buffer, s) ==
    LET base == CBaseInputPin_Receive(state)
        r == AudioSinkFilter_OnSamplesReceived(actual, buffer, s)
    IN  IF FAILED(base)
        THEN [hr |-> base, ingest_hr |-> "none", buffer |-> buffer,
              calls |-> 0, arg |-> EmptyAudioBuffer, status |-> 0,
              time_hr |-> "none",
              log_error |-> (base # "VFW_E_WRONG_STATE")]
        ELSE [hr |-> "S_OK", ingest_hr |-> r.hr, buffer |-> r.buffer,
              calls |-> r.calls, arg |-> r.arg, status |-> r.status,
              time_hr |-> r.time_hr,
              log_error |-> (FAILED(r.hr) \/ r.status # 0)]

-----------------------------------------------------------------------------
(* The audio entry points. *)

\* The descriptor a proposal's payload denotes (history only).
AudioDescriptor(f) ==
    [format_tag |-> f.format_tag, channels |-> f.channels,
     sample_rate |-> f.sample_rate, bytes_per_second |-> f.bytes_per_second,
     block_align |-> f.block_align, bits_per_sample |-> f.bits_per_sample,
     valid_bits_per_sample |-> f.valid_bits_per_sample,
     channel_mask |-> f.channel_mask]

AudioCheckMediaType(p) ==
    /\ endpoint = "audio"
    /\ LET r == AudioSinkPin_CheckMediaType(actual_config_, p) IN
        /\ hr' = r.hr
        /\ actual_config_' = r.actual_config_
        /\ accepted' =
             IF r.hr = "S_OK" THEN AudioDescriptor(p.format) ELSE accepted
        \* CBasePin::ReceiveConnection connects once CheckMediaType accepts.
        /\ m_Connected' = (m_Connected \/ r.hr = "S_OK")
    /\ op' = "CheckMediaType"
    /\ NoOutputs
    /\ UNCHANGED threads
    /\ UNCHANGED <<endpoint, m_State, requested_config_, sample_buffer_, frame_,
                   ingested>>

\* The indexes GetMediaType is asked for; the array is read behind its end
\* at index kNumInputSubTypes only.
TypeIndexes == -1..(kNumInputSubTypes + 1)

Beyond(type_index) ==
    IF type_index = kNumInputSubTypes THEN BeyondInputSubTypes
    ELSE {"GUID_NULL"}

AudioGetMediaType(type_index, ptr_ok, beyond) ==
    /\ endpoint = "audio"
    /\ LET r == AudioSinkPin_GetMediaType(type_index, ptr_ok, beyond) IN
        /\ hr' = r.hr
        /\ out_media_type' = r.type
    /\ op' = "GetMediaType"
    /\ out_config' = EmptyAudioConfig
    /\ cb_calls' = 0
    /\ cb_buffer' = EmptyAudioBuffer
    /\ cb_return' = 0
    /\ time_hr' = "none"
    /\ ingest_hr' = "none"
    /\ log_error' = FALSE
    /\ UNCHANGED threads
    /\ UNCHANGED <<endpoint, m_State, m_Connected, requested_config_,
                   actual_config_, sample_buffer_, frame_, accepted,
                   ingested>>

AudioGetConfig(ptr_ok) ==
    /\ endpoint = "audio"
    /\ LET r == AudioSinkFilter_config(actual_config_, ptr_ok) IN
        /\ hr' = r.hr
        /\ out_config' = r.out
    /\ op' = "config"
    /\ out_media_type' = NoMediaType
    /\ cb_calls' = 0
    /\ cb_buffer' = EmptyAudioBuffer
    /\ cb_return' = 0
    /\ time_hr' = "none"
    /\ ingest_hr' = "none"
    /\ log_error' = FALSE
    /\ UNCHANGED threads
    /\ UNCHANGED <<endpoint, m_State, m_Connected, requested_config_,
                   actual_config_, sample_buffer_, frame_, accepted,
                   ingested>>

\* Mutant: the descriptor in the sample buffer follows actual_config_.
AudioSetConfig_BufferFollowsActual(config) ==
    /\ endpoint = "audio"
    /\ LET r == AudioSinkFilter_set_config(m_State, requested_config_,
                                           actual_config_, config) IN
        /\ hr' = r.hr
        /\ requested_config_' = r.requested_config_
        /\ actual_config_' = r.actual_config_
        /\ sample_buffer_' =
             [sample_buffer_ EXCEPT !.config = r.actual_config_]
    /\ op' = "set_config"
    /\ NoOutputs
    /\ UNCHANGED threads
    /\ UNCHANGED <<endpoint, m_State, m_Connected, frame_, accepted, ingested>>

AudioSetConfig(config) ==
    /\ endpoint = "audio"
    /\ LET r == AudioSinkFilter_set_config(m_State, requested_config_,
                                           actual_config_, config) IN
        /\ hr' = r.hr
        /\ requested_config_' = r.requested_config_
        /\ actual_config_' = r.actual_config_
    /\ op' = "set_config"
    /\ NoOutputs
    /\ UNCHANGED threads
    /\ UNCHANGED <<endpoint, m_State, m_Connected, sample_buffer_, frame_,
                   accepted, ingested>>

AudioReceive(s) ==
    /\ endpoint = "audio"
    /\ m_Connected
    /\ LET r == AudioSinkPin_Receive(m_State, actual_config_, sample_buffer_, s) IN
        /\ hr' = r.hr
        /\ ingest_hr' = r.ingest_hr
        /\ sample_buffer_' = r.buffer
        /\ ingested' = (IF r.calls = 1 THEN r.buffer ELSE ingested)
        /\ cb_calls' = r.calls
        /\ cb_buffer' = r.arg
        /\ cb_return' = r.status
        /\ time_hr' = r.time_hr
        /\ log_error' = r.log_error
    /\ op' = "Receive"
    /\ out_config' = EmptyAudioConfig
    /\ out_media_type' = NoMediaType
    /\ UNCHANGED threads
    /\ UNCHANGED <<endpoint, m_State, m_Connected, requested_config_,
                   actual_config_, frame_, accepted>>

-----------------------------------------------------------------------------
(* VideoSinkPin *)

\* abs()
Abs(x) == IF x < 0 THEN -x ELSE x

\* VideoSinkPin::GetMediaType: one proposal, I420 in the requested size;
\* |alloc_ok| is whether AllocFormatBuffer gave a buffer.
VideoSinkPin_GetMediaType(requested, type_index, alloc_ok) ==
    IF type_index # 0
    THEN [hr |-> "VFW_S_NO_MORE_ITEMS", type |-> NoMediaType]
    ELSE IF ~alloc_ok THEN [hr |-> "E_OUTOFMEMORY", type |-> NoMediaType]
    ELSE [hr |-> "S_OK",
          type |-> [majortype |-> "MEDIATYPE_Video",
                    formattype |-> "FORMAT_VideoInfo",
                    subtype |-> "MEDIASUBTYPE_I420",
                    format |-> VideoInfo(FourCC_I420, requested.width,
                                         requested.height)]]

\* The HRESULT of VideoSinkPin::CheckMediaType.  A format type that is
\* neither FORMAT_VideoInfo nor FORMAT_VideoInfo2 enters neither branch and
\* reaches the final return.
VideoCheckMediaType_hr(p) ==
    IF p.majortype # "MEDIATYPE_Video" THEN "VFW_E_TYPE_NOT_ACCEPTED"
    ELSE IF p.subtype = "NULL" \/ p.formattype = "NULL" THEN "E_INVALIDARG"
    ELSE IF p.formattype \in {"FORMAT_VideoInfo", "FORMAT_VideoInfo2"}
         THEN IF ~p.format.present THEN "VFW_E_TYPE_NOT_ACCEPTED"
              ELSE IF \/ p.subtype # "MEDIASUBTYPE_I420"
                      \/ p.format.biCompression # FourCC_I420
                   THEN "VFW_E_TYPE_NOT_ACCEPTED"
              ELSE "S_OK"
    ELSE "S_OK"

\* The assignments to actual_config_ in either branch.
VideoStoreActual(cfg, f) ==
    [cfg EXCEPT !.width = f.biWidth, !.height = Abs(f.biHeight)]

\* VideoSinkPin::CheckMediaType on a pin whose actual_config_ is |actual|.
VideoSinkPin_CheckMediaType(actual, p) ==
    LET r == VideoCheckMediaType_hr(p) IN
    [hr |-> r,
     actual_config_ |->
        IF r = "S_OK" /\ p.formattype \in {"FORMAT_VideoInfo", "FORMAT_VideoInfo2"}
        THEN VideoStoreActual(actual, p.format)
        ELSE actual]

\* VideoSinkPin::config
VideoSinkPin_config(actual, ptr_ok) ==
    IF ~ptr_ok THEN [hr |-> "E_POINTER", out |-> EmptyVideoConfig]
    ELSE [hr |-> "S_OK", out |-> actual]

\* VideoSinkPin::set_config
VideoSinkPin_set_config(requested, actual, config) ==
    [hr |-> "S_OK", requested_config_ |-> config,
     actual_config_ |-> EmptyVideoConfig]

-----------------------------------------------------------------------------
(* VideoSinkFilter *)

\* VideoSinkFilter::config
VideoSinkFilter_config(actual, ptr_ok) == VideoSinkPin_config(actual, ptr_ok)

\* VideoSinkFilter::set_config in run state |state|.
VideoSinkFilter_set_config(state, requested, actual, config) ==
    IF state # "State_Stopped"
    THEN [hr |-> "VFW_E_NOT_STOPPED", requested_config_ |-> requested,
          actual_config_ |-> actual]
    ELSE VideoSinkPin_set_config(requested, actual, config)

\* VideoFrame::InitI420: the frame holding a copy of |length| bytes.
VideoFrame_InitI420(width, height, timestamp, length) ==
    [width |-> width, height |-> height, timestamp |-> timestamp,
     buffer_length |-> length]

\* VideoSinkFilter::OnFrameReceived: the HRESULT, the frame it leaves and the
\* callback calls it makes.  The length is not read before InitI420, the
\* start time is passed on as GetMediaTime gave it, and ptr_frame_callback_
\* is not called.
VideoSinkFilter_OnFrameReceived(actual, frame, s) ==
    LET untouched(h, th) == [hr |-> h, frame |-> frame, calls |-> 0,
                             arg |-> EmptyAudioBuffer, time_hr |-> th]
        filled == VideoFrame_InitI420(actual.width, actual.height,
                                      s.start_time, s.length)
    IN  IF s.pointer # "valid"
        THEN untouched(IF s.pointer = "error" THEN "E_POINTER" ELSE "E_FAIL",
                       "none")
        ELSE IF FAILED(s.time_hr) THEN untouched(s.time_hr, s.time_hr)
        ELSE IF s.init_status # 0 THEN untouched("E_FAIL", s.time_hr)
        ELSE [hr |-> "S_OK", frame |-> filled, calls |-> 0,
              arg |-> EmptyAudioBuffer, time_hr |-> s.time_hr]

\* VideoSinkPin::Receive: |ingest_hr| is what OnFrameReceived returned
\* ("none" when it was not called), |hr| what Receive returns, |log_error|
\* whether a LOG(ERROR) line was written: Receive writes none, and
\* OnFrameReceived one for each failure of a sample it was handed.
VideoSinkPin_Receive(state, actual, frame, s) ==
    LET base == CBaseInputPin_Receive(state)
        r == VideoSinkFilter_OnFrameReceived(actual, frame, s)
    IN  IF SUCCEEDED(base)
        THEN [hr |-> r.hr, ingest_hr |-> r.hr, frame |-> r.frame,
              calls |-> r.calls, arg |-> r.arg, time_hr |-> r.time_hr,
              log_error |-> FAILED(r.hr)]
        ELSE [hr |-> base, ingest_hr |-> "none", frame |-> frame,
              calls |-> 0, arg |-> EmptyAudioBuffer, time_hr |-> "none",
              log_error |-> FALSE]

-----------------------------------------------------------------------------
(* The video entry points. *)

\* The descriptor a proposal's payload denotes (history only).
VideoDescriptor(f) ==
    [width |-> f.biWidth,
     height |-> IF f.biHeight < 0 THEN 0 - f.biHeight ELSE f.biHeight]

VideoCheckMediaType(p) ==
    /\ endpoint = "video"
    /\ LET r == VideoSinkPin_CheckMediaType(actual_config_, p) IN
        /\ hr' = r.hr
        /\ actual_config_' = r.actual_config_
        /\ accepted' =
             IF r.hr = "S_OK" THEN VideoDescriptor(p.format) ELSE accepted
        \* CBasePin::ReceiveConnection connects once CheckMediaType accepts.
        /\ m_Connected' = (m_Connected \/ r.hr = "S_OK")
    /\ op' = "CheckMediaType"
    /\ NoOutputs
    /\ UNCHANGED threads
    /\ UNCHANGED <<endpoint, m_State, requested_config_, sample_buffer_, frame_,
                   ingested>>

VideoGetMediaType(type_index, alloc_ok) ==
    /\ endpoint = "video"
    /\ LET r == VideoSinkPin_GetMediaType(requested_config_, type_index,
                                          alloc_ok) IN
        /\ hr' = r.hr
        /\ out_media_type' = r.type
        \* "VIDEOINFOHEADER alloc failed."
        /\ log_error' = (r.hr = "E_OUTOFMEMORY")
    /\ op' = "GetMediaType"
    /\ out_config' = EmptyVideoConfig
    /\ cb_calls' = 0
    /\ cb_buffer' = EmptyAudioBuffer
    /\ cb_return' = 0
    /\ time_hr' = "none"
    /\ ingest_hr' = "none"
    /\ UNCHANGED threads
    /\ UNCHANGED <<endpoint, m_State, m_Connected, requested_config_,
                   actual_config_, sample_buffer_, frame_, accepted,
                   ingested>>

VideoGetConfig(ptr_ok) ==
    /\ endpoint = "video"
    /\ LET r == VideoSinkFilter_config(actual_config_, ptr_ok) IN
        /\ hr' = r.hr
        /\ out_config' = r.out
    /\ op' = "config"
    /\ out_media_type' = NoMediaType
    /\ cb_calls' = 0
    /\ cb_buffer' = EmptyAudioBuffer
    /\ cb_return' = 0
    /\ time_hr' = "none"
    /\ ingest_hr' = "none"
    /\ log_error' = FALSE
    /\ UNCHANGED threads
    /\ UNCHANGED <<endpoint, m_State, m_Connected, requested_config_,
                   actual_config_, sample_buffer_, frame_, accepted,
                   ingested>>

VideoSetConfig(config) ==
    /\ endpoint = "video"
    /\ LET r == VideoSinkFilter_set_config(m_State, requested_config_,
                                           actual_config_, config) IN
        /\ hr' = r.hr
        /\ requested_config_' = r.requested_config_
        /\ actual_config_' = r.actual_config_
    /\ op' = "set_config"
    /\ NoOutputs
    /\ UNCHANGED threads
    /\ UNCHANGED <<endpoint, m_State, m_Connected, sample_buffer_, frame_,
                   accepted, ingested>>

VideoReceive(s) ==
    /\ endpoint = "video"
    /\ m_Connected
    /\ LET r == VideoSinkPin_Receive(m_State, actual_config_, frame_, s) IN
        /\ hr' = r.hr
        /\ ingest_hr' = r.ingest_hr
        /\ frame_' = r.frame
        /\ ingested' = (IF r.ingest_hr = "S_OK" THEN r.frame ELSE ingested)
        /\ cb_calls' = r.calls
        /\ cb_buffer' = r.arg
        /\ cb_return' = 0
        /\ time_hr' = r.time_hr
        /\ log_error' = r.log_error
    /\ op' = "Receive"
    /\ out_config' = EmptyVideoConfig
    /\ out_media_type' = NoMediaType
    /\ UNCHANGED threads
    /\ UNCHANGED <<endpoint, m_State, m_Connected, requested_config_,
                   actual_config_, sample_buffer_, accepted>>

-----------------------------------------------------------------------------
(* CBaseFilter: the graph drives the run state. *)

StateChange(name, to) ==
    /\ m_State' = to
    /\ op' = name
    /\ hr' = "S_OK"
    /\ NoOutputs
    /\ UNCHANGED threads
    /\ UNCHANGED <<endpoint, m_Connected, requested_config_, actual_config_,
                   sample_buffer_, frame_, accepted, ingested>>

Stop == m_State # "State_Stopped" /\ StateChange("Stop", "State_Stopped")

Pause == m_State # "State_Paused" /\ StateChange("Pause", "State_Paused")

Run == m_State = "State_Paused" /\ StateChange("Run", "State_Running")

-----------------------------------------------------------------------------
AudioNext ==
    \/ \E i \in TypeIndexes : \E beyond \in Beyond(i) :
           AudioGetMediaType(i, TRUE, beyond)
    \/ AudioGetMediaType(0, FALSE, "GUID_NULL")
    \/ \E p \in AudioProposals : AudioCheckMediaType(p)
    \/ \E ptr_ok \in BOOLEAN : AudioGetConfig(ptr_ok)
    \/ \E c \in AudioRequests : AudioSetConfig(c)
    \/ \E s \in Samples : AudioReceive(s)

VideoNext ==
    \/ \E i \in {0, 1}, alloc_ok \in BOOLEAN : VideoGetMediaType(i, alloc_ok)
    \/ \E p \in VideoProposals : VideoCheckMediaType(p)
    \/ \E ptr_ok \in BOOLEAN : VideoGetConfig(ptr_ok)
    \/ \E c \in VideoRequests : VideoSetConfig(c)
    \/ \E s \in VideoSamples : VideoReceive(s)

Next ==
    \/ AudioNext
    \/ VideoNext
    \/ Stop
    \/ Pause
    \/ Run

Spec == Init /\ [][Next]_vars

-----------------------------------------------------------------------------
(* The empty descriptor and the requests of the endpoint followed. *)

EmptyConfig ==
    IF endpoint = "audio" THEN EmptyAudioConfig ELSE EmptyVideoConfig

Requests == IF endpoint = "audio" THEN AudioRequests ELSE VideoRequests

\* set_config and config of the endpoint followed.
SetConfig(config) ==
    IF endpoint = "audio"
    THEN AudioSinkFilter_set_config(m_State, requested_config_,
                                    actual_config_, config)
    ELSE VideoSinkFilter_set_config(m_State, requested_config_,
                                    actual_config_, config)

GetConfig(actual) ==
    IF endpoint = "audio" THEN AudioSinkFilter_config(actual, TRUE)
    ELSE VideoSinkFilter_config(actual, TRUE)

-----------------------------------------------------------------------------
(* C1 *)

\* C1: whatever Actual Configuration holds, an audio proposal whose sub-kind
\* is neither IEEE-float nor PCM is rejected, and a rejected audio proposal
\* (for any reason) leaves Actual Configuration as it was.
C1_AudioRejectionKeepsActual ==
    endpoint = "audio" =>
        \A p \in AudioProposals :
            LET r == AudioSinkPin_CheckMediaType(actual_config_, p) IN
            /\ p.subtype \notin kInputSubTypes => FAILED(r.hr)
            /\ FAILED(r.hr) => r.actual_config_ = actual_config_

\* An audio proposal was just rejected while Actual Configuration held the
\* descriptor of an earlier accepted proposal, and still holds it.
C1_Witness ==
    /\ endpoint = "audio"
    /\ op = "CheckMediaType"
    /\ FAILED(hr)
    /\ actual_config_ # EmptyAudioConfig
    /\ actual_config_ = accepted

-----------------------------------------------------------------------------
(* C2 *)

\* C2: a video proposal is accepted only if its major kind is video, sub-kind
\* and layout-kind are present, the layout-kind is VideoInfo or VideoInfo2,
\* the sub-kind is I420 and the four-character tag is I420; a proposal whose
\* sub-kind is not I420 is rejected, whatever its layout-kind, and leaves
\* Actual Configuration as it was.
C2_VideoAcceptsOnlyI420 ==
    endpoint = "video" =>
        \A p \in VideoProposals :
            LET r == VideoSinkPin_CheckMediaType(actual_config_, p) IN
            /\ r.hr = "S_OK" =>
                  /\ p.majortype = "MEDIATYPE_Video"
                  /\ p.subtype # "NULL" /\ p.formattype # "NULL"
                  /\ p.formattype \in {"FORMAT_VideoInfo", "FORMAT_VideoInfo2"}
                  /\ p.subtype = "MEDIASUBTYPE_I420"
                  /\ p.format.present
                  /\ p.format.biCompression = FourCC_I420
            /\ p.subtype # "MEDIASUBTYPE_I420" =>
                  FAILED(r.hr) /\ r.actual_config_ = actual_config_

-----------------------------------------------------------------------------
(* C3 *)

\* C3: in every reachable state Actual Configuration is empty or equals,
\* field for field, the descriptor of the proposal accepted last; config()
\* returns it.
C3_ActualIsEmptyOrLastAccepted ==
    /\ actual_config_ = EmptyConfig \/ actual_config_ = accepted
    /\ GetConfig(actual_config_).out = actual_config_

-----------------------------------------------------------------------------
(* C4 *)

\* C4: after an accepted audio proposal with the extensible tag, Actual
\* Configuration holds the proposal's valid-bits-per-sample and channel mask;
\* after an accepted audio proposal with another tag it holds zero in both,
\* also when an extensible proposal was accepted before it.
C4_ExtensibleMembers ==
    (endpoint = "audio" /\ op = "CheckMediaType" /\ hr = "S_OK") =>
        IF accepted.format_tag = WAVE_FORMAT_EXTENSIBLE
        THEN /\ actual_config_.valid_bits_per_sample =
                    accepted.valid_bits_per_sample
             /\ actual_config_.channel_mask = accepted.channel_mask
        ELSE /\ actual_config_.valid_bits_per_sample = 0
             /\ actual_config_.channel_mask = 0

-----------------------------------------------------------------------------
(* C5 *)

\* C5: an audio proposal whose layout-kind is not WaveFormatEx is never
\* accepted and never changes Actual Configuration.
C5_AudioFormatTypeRequired ==
    endpoint = "audio" =>
        \A p \in AudioProposals :
            LET r == AudioSinkPin_CheckMediaType(actual_config_, p) IN
            p.formattype # "FORMAT_WaveFormatEx" =>
                FAILED(r.hr) /\ r.actual_config_ = actual_config_

-----------------------------------------------------------------------------
(* C6 *)

\* C6: while the run state is not Stopped, set_config fails with
\* VFW_E_NOT_STOPPED for every config and leaves Requested and Actual
\* Configuration as they were.
C6_SetConfigRefusedUnlessStopped ==
    m_State # "State_Stopped" =>
        \A c \in Requests :
            /\ SetConfig(c).hr = "VFW_E_NOT_STOPPED"
            /\ SetConfig(c).requested_config_ = requested_config_
            /\ SetConfig(c).actual_config_ = actual_config_

\* set_config was just refused on a running filter whose pin holds a
\* negotiated descriptor.
C6_Witness ==
    /\ op = "set_config"
    /\ hr = "VFW_E_NOT_STOPPED"
    /\ m_State = "State_Running"
    /\ actual_config_ # EmptyConfig
    /\ requested_config_ \in Requests

-----------------------------------------------------------------------------
(* C7 *)

\* C7: while the run state is Stopped, set_config succeeds for every config,
\* Requested Configuration becomes that config, Actual Configuration becomes
\* empty whatever it held, and a config() that follows returns the empty
\* descriptor.
C7_SetConfigWhenStopped ==
    m_State = "State_Stopped" =>
        \A c \in Requests :
            /\ SetConfig(c).hr = "S_OK"
            /\ SetConfig(c).requested_config_ = c
            /\ SetConfig(c).actual_config_ = EmptyConfig
            /\ GetConfig(SetConfig(c).actual_config_).hr = "S_OK"
            /\ GetConfig(SetConfig(c).actual_config_).out = EmptyConfig

\* config() was just called after a set_config that cleared a negotiated
\* descriptor, and returned the empty descriptor.
C7_Witness ==
    /\ op = "config"
    /\ hr = "S_OK"
    /\ out_config = EmptyConfig
    /\ accepted # NoProposal
    /\ requested_config_ \in Requests
    /\ m_State = "State_Stopped"

-----------------------------------------------------------------------------
(* C8 *)

\* C8: a sample delivered to a connected pin of a filter that is not stopped,
\* with a null pointer or a length <= 0, makes the ingest fail, Receive
\* return a failure to the upstream source, leaves the sample buffer as it
\* was and calls the callback not at all.
C8_EmptyPayloadFailsReceive ==
    (m_Connected /\ m_State # "State_Stopped") =>
        /\ endpoint = "audio" =>
              \A s \in Samples :
                  LET r == AudioSinkPin_Receive(m_State, actual_config_,
                                                sample_buffer_, s) IN
                  (s.pointer # "valid" \/ s.length <= 0) =>
                      /\ FAILED(r.ingest_hr)
                      /\ FAILED(r.hr)
                      /\ r.buffer = sample_buffer_
                      /\ r.calls = 0
        /\ endpoint = "video" =>
              \A s \in VideoSamples :
                  LET r == VideoSinkPin_Receive(m_State, actual_config_,
                                                frame_, s) IN
                  (s.pointer # "valid" \/ s.length <= 0) =>
                      /\ FAILED(r.ingest_hr)
                      /\ FAILED(r.hr)
                      /\ r.frame = frame_
                      /\ r.calls = 0

-----------------------------------------------------------------------------
(* C9 *)

\* C9: an audio sample delivered to a connected pin of a running filter, with
\* a valid pointer, n > 0 bytes, a start time s and an end time e, and whose
\* buffer could be allocated, leaves the sample buffer with timestamp
\* to_ms(s), duration to_ms(e) - to_ms(s) and length n, and the callback is
\* called exactly once, with that buffer.
C9_AudioIngest ==
    (endpoint = "audio" /\ m_Connected /\ m_State = "State_Running") =>
        \A s \in Samples :
            LET r == AudioSinkPin_Receive(m_State, actual_config_,
                                          sample_buffer_, s) IN
            (/\ s.pointer = "valid" /\ s.length > 0
             /\ s.time_hr = "S_OK" /\ s.init_status = 0) =>
                /\ r.buffer.timestamp = media_time_to_milliseconds(s.start_time)
                /\ r.buffer.duration =
                      media_time_to_milliseconds(s.end_time)
                        - media_time_to_milliseconds(s.start_time)
                /\ r.buffer.buffer_length = s.length
                /\ r.calls = 1
                /\ r.arg = r.buffer

\* An audio sample running from 7500 to 15000 was just ingested: timestamp
\* 0 ms, duration 1 ms, and the callback was called once with the buffer.
C9_Witness ==
    /\ endpoint = "audio"
    /\ op = "Receive"
    /\ m_State = "State_Running"
    /\ ingest_hr = "S_OK"
    /\ cb_calls = 1
    /\ cb_buffer = sample_buffer_
    /\ sample_buffer_.timestamp = 0
    /\ sample_buffer_.duration = 1
    /\ sample_buffer_.buffer_length = MaxLen

-----------------------------------------------------------------------------
(* C10 *)

\* C10: a video sample delivered to a connected pin of a running filter, with
\* a valid pointer, n > 0 bytes and a start time, and whose frame could be
\* allocated, leaves the frame stamped with the start time converted to
\* milliseconds and the width and height of Actual Configuration, and the
\* frame callback is called exactly once.
C10_VideoIngest ==
    (endpoint = "video" /\ m_Connected /\ m_State = "State_Running") =>
        \A s \in VideoSamples :
            LET r == VideoSinkPin_Receive(m_State, actual_config_, frame_, s) IN
            (/\ s.pointer = "valid" /\ s.length > 0
             /\ s.time_hr = "S_OK" /\ s.init_status = 0) =>
                /\ r.frame.timestamp = media_time_to_milliseconds(s.start_time)
                /\ r.frame.width = actual_config_.width
                /\ r.frame.height = actual_config_.height
                /\ r.calls = 1

-----------------------------------------------------------------------------
(* C11 *)

\* A sample the audio sink copies and dispatches: valid pointer, n > 0
\* bytes, times obtained, buffer allocated.
Dispatched(s) ==
    /\ s.pointer = "valid" /\ s.length > 0
    /\ SUCCEEDED(s.time_hr) /\ s.init_status = 0

\* C11: for an audio sample that is copied and dispatched, whatever status
\* the callback returns, the ingest and Receive report success, the callback
\* is called exactly once, and the sink is left exactly as a callback
\* returning 0 leaves it, so that the next sample is processed alike.
C11_CallbackStatusIgnored ==
    (endpoint = "audio" /\ m_Connected /\ m_State # "State_Stopped") =>
        \A s \in Samples :
            LET r == AudioSinkPin_Receive(m_State, actual_config_,
                                          sample_buffer_, s)
                r0 == AudioSinkPin_Receive(m_State, actual_config_,
                                           sample_buffer_,
                                           [s EXCEPT !.cb_status = 0])
            IN  Dispatched(s) =>
                    /\ r.ingest_hr = "S_OK"
                    /\ r.hr = "S_OK"
                    /\ r.calls = 1
                    /\ r.status = s.cb_status
                    /\ r.buffer = r0.buffer
                    /\ r.arg = r0.arg

\* An audio sample was just dispatched to a callback that returned 1, and
\* the ingest and Receive both reported success after one call.
C11_Witness ==
    /\ endpoint = "audio"
    /\ op = "Receive"
    /\ cb_return = 1
    /\ cb_calls = 1
    /\ ingest_hr = "S_OK"
    /\ hr = "S_OK"

-----------------------------------------------------------------------------
(* C12 *)

\* A delivery error of the audio sink: empty payload, time query failed, or
\* buffer initialisation failed.
AudioDeliveryError(s) ==
    \/ s.pointer # "valid" \/ s.length <= 0
    \/ FAILED(s.time_hr)
    \/ s.init_status # 0

\* A delivery error of the video sink (its payload check is the pointer).
VideoDeliveryError(s) ==
    \/ s.pointer # "valid"
    \/ FAILED(s.time_hr)
    \/ s.init_status # 0

\* C12: a delivery with an empty payload, a failing time query or a failing
\* buffer initialisation makes Receive return a failure and calls the
\* callback not at all; a valid delivery, also one that follows such an
\* error, is ingested and dispatched to the callback exactly once.
C12_DeliveryErrorsReturned ==
    (m_Connected /\ m_State # "State_Stopped") =>
        /\ endpoint = "audio" =>
              \A s \in Samples :
                  LET r == AudioSinkPin_Receive(m_State, actual_config_,
                                                sample_buffer_, s) IN
                  /\ AudioDeliveryError(s) => FAILED(r.hr) /\ r.calls = 0
                  /\ ~AudioDeliveryError(s) =>
                        r.ingest_hr = "S_OK" /\ r.calls = 1
        /\ endpoint = "video" =>
              \A s \in VideoSamples :
                  LET r == VideoSinkPin_Receive(m_State, actual_config_,
                                                frame_, s) IN
                  /\ VideoDeliveryError(s) => FAILED(r.hr) /\ r.calls = 0
                  /\ ~VideoDeliveryError(s) =>
                        r.ingest_hr = "S_OK" /\ r.calls = 1

-----------------------------------------------------------------------------
(* C14 *)

\* C14: an audio sample for which GetTime reports a start time and no end
\* time (VFW_S_NO_STOP_TIME), with a valid payload and an allocatable
\* buffer, leaves the sample buffer with duration 0 and timestamp
\* to_ms(start); the ingest and Receive succeed and the callback is called
\* exactly once.
C14_NoStopTime ==
    (endpoint = "audio" /\ m_Connected /\ m_State # "State_Stopped") =>
        \A s \in Samples :
            LET r == AudioSinkPin_Receive(m_State, actual_config_,
                                          sample_buffer_, s) IN
            (/\ s.pointer = "valid" /\ s.length > 0
             /\ s.time_hr = "VFW_S_NO_STOP_TIME" /\ s.init_status = 0) =>
                /\ r.buffer.duration = 0
                /\ r.buffer.timestamp =
                      media_time_to_milliseconds(s.start_time)
                /\ r.ingest_hr = "S_OK"
                /\ r.hr = "S_OK"
                /\ r.calls = 1
                /\ r.arg = r.buffer

\* An audio sample starting at 15000 with no end time was just ingested:
\* timestamp 1 ms, duration 0, one callback, success.
C14_Witness ==
    /\ endpoint = "audio"
    /\ op = "Receive"
    /\ time_hr = "VFW_S_NO_STOP_TIME"
    /\ ingest_hr = "S_OK"
    /\ hr = "S_OK"
    /\ cb_calls = 1
    /\ sample_buffer_.timestamp = 1
    /\ sample_buffer_.duration = 0

-----------------------------------------------------------------------------
(* C15 *)

\* C15: the audio pin's GetMediaType returns the two supported sub-kinds at
\* index 0 and 1, returns end-of-list at every index >= kNumInputSubTypes
\* without reading an entry of kInputSubTypes, and rejects a negative index
\* as invalid.
C15_AudioEnumeration ==
    endpoint = "audio" =>
        \A i \in TypeIndexes : \A beyond \in Beyond(i) :
            LET r == AudioSinkPin_GetMediaType(i, TRUE, beyond) IN
            /\ i < 0 => r.hr = "E_INVALIDARG"
            /\ i \in 0..(kNumInputSubTypes - 1) =>
                  /\ r.hr = "S_OK"
                  /\ r.type.subtype = kInputSubTypeAt(i)
                  /\ r.type.subtype \in kInputSubTypes
            /\ i >= kNumInputSubTypes =>
                  /\ r.hr = "VFW_S_NO_MORE_ITEMS"
                  /\ r.read = -1

-----------------------------------------------------------------------------
(* C16 *)

\* Reference times around zero, in steps of half a millisecond.
Ticks == {k * 5000 : k \in (-MaxTime)..(2 * MaxTime)}

\* A sample starting and ending at |t| that the sink copies and dispatches.
GoodSample(t) ==
    [pointer |-> "valid", length |-> MaxLen, time_hr |-> "S_OK",
     start_time |-> t, end_time |-> t, init_status |-> 0, cb_status |-> 0]

\* C16: the conversion to milliseconds is monotonic, ms(t1) <= ms(t2) for
\* t1 < t2 (truncating division, negative times included); and of two audio
\* samples delivered one after the other with increasing start times, the
\* second leaves a buffer whose timestamp is not below the first's.
C16_TimestampMonotonic ==
    /\ \A t1, t2 \in Ticks \cup TimeValues :
          t1 < t2 =>
              media_time_to_milliseconds(t1) <= media_time_to_milliseconds(t2)
    /\ (endpoint = "audio" /\ m_Connected /\ m_State # "State_Stopped") =>
          \A t1, t2 \in TimeValues :
              LET r1 == AudioSinkPin_Receive(m_State, actual_config_,
                                             sample_buffer_, GoodSample(t1))
                  r2 == AudioSinkPin_Receive(m_State, actual_config_,
                                             r1.buffer, GoodSample(t2))
              IN  t1 < t2 =>
                      /\ r1.calls = 1 /\ r2.calls = 1
                      /\ r1.buffer.timestamp <= r2.buffer.timestamp

\* An audio sample starting at 7500 was just ingested by a filter that is
\* not stopped: the buffer is stamped 0 ms, and a sample with a later start
\* time can follow.
C16_Witness ==
    /\ endpoint = "audio"
    /\ op = "Receive"
    /\ m_State # "State_Stopped"
    /\ cb_calls = 1
    /\ time_hr = "S_OK"
    /\ sample_buffer_.timestamp = media_time_to_milliseconds(7500)
    /\ sample_buffer_.duration = 0

-----------------------------------------------------------------------------
(* C19 *)

\* C19: every buffer handed to the callback carries a descriptor that is not
\* empty and equals the descriptor of the proposal accepted last.
C19_DispatchedDescriptorPopulated ==
    (op = "Receive" /\ cb_calls = 1) =>
        /\ cb_buffer.config # EmptyAudioConfig
        /\ cb_buffer.config = accepted

-----------------------------------------------------------------------------
(* C20 *)

\* C20: the descriptor, timestamp, duration and length in the sample buffer
\* (the width, height, timestamp and length in the frame) are those the last
\* ingest recorded, whatever set_config and CheckMediaType have done to
\* Actual Configuration since.
C20_BufferKeepsSnapshot ==
    /\ endpoint = "audio" => sample_buffer_ = ingested
    /\ endpoint = "video" => frame_ = ingested

\* After an ingest, a set_config or an accepted proposal has just changed
\* Actual Configuration, which now differs from the descriptor in the
\* buffer.
C20_Witness ==
    /\ endpoint = "audio"
    /\ op \in {"set_config", "CheckMediaType"}
    /\ hr = "S_OK"
    /\ ingested # EmptyAudioBuffer
    /\ sample_buffer_.config # EmptyAudioConfig
    /\ sample_buffer_.config # actual_config_

-----------------------------------------------------------------------------
(* Deliveries to a stopped filter. *)

\* A Receive step taken while the filter is stopped: the caller gets
\* VFW_E_WRONG_STATE, no LOG(ERROR) line is written, the callback is not
\* called, and the buffer, the frame and both configurations stay as they
\* were.
ToleratedDelivery ==
    /\ hr' = "VFW_E_WRONG_STATE"
    /\ ~log_error'
    /\ ingest_hr' = "none"
    /\ cb_calls' = 0
    /\ UNCHANGED <<m_State, sample_buffer_, frame_, requested_config_,
                   actual_config_, ingested>>

\* A Receive step taken while the filter is paused or running: the sample
\* reaches OnSamplesReceived / OnFrameReceived, whatever was delivered
\* before; the audio pin returns S_OK and the video pin what the ingest
\* returned; a sample that was copied is what the buffer or the frame now
\* holds, and the audio callback was handed it.
ProcessedDelivery ==
    /\ ingest_hr' # "none"
    /\ UNCHANGED <<m_State, requested_config_, actual_config_>>
    /\ endpoint = "audio" =>
          /\ hr' = "S_OK"
          /\ IF cb_calls' = 1
             THEN /\ ingest_hr' = "S_OK"
                  /\ cb_buffer' = sample_buffer_'
                  /\ ingested' = sample_buffer_'
                  /\ sample_buffer_'.config = actual_config_
             ELSE /\ FAILED(ingest_hr')
                  /\ log_error'
                  /\ UNCHANGED <<sample_buffer_, ingested>>
    /\ endpoint = "video" =>
          /\ hr' = ingest_hr'
          /\ IF SUCCEEDED(ingest_hr')
             THEN ingested' = frame_'
             ELSE log_error' /\ UNCHANGED <<frame_, ingested>>

DeliveryStep ==
    op' = "Receive" =>
        IF m_State = "State_Stopped" THEN ToleratedDelivery
        ELSE ProcessedDelivery

\* C21: a delivery made while the filter is stopped returns
\* VFW_E_WRONG_STATE without an error being logged, leaves the sample buffer,
\* the frame, Requested Configuration and Actual Configuration unchanged and
\* does not call the callback; a delivery made while the filter is not
\* stopped, after a restart included, is ingested as any other.
C21_DeliveryAfterStopTolerated == [][DeliveryStep]_vars

\* A sample was delivered to a filter that had ingested samples and was
\* then stopped: the delivery was refused and nothing was logged.
C21_Witness ==
    /\ op = "Receive"
    /\ m_State = "State_Stopped"
    /\ hr = "VFW_E_WRONG_STATE"
    /\ ~log_error
    /\ ingested # EmptyAudioBuffer
    /\ ingested # EmptyVideoFrame

-----------------------------------------------------------------------------
(* The audio sink filter called from several threads.                      *)
(*                                                                         *)
(* Each entry point is cut where another thread can run in between: where  *)
(* it waits for filter_lock_, and, for the code that runs without the      *)
(* lock, between two accesses to a member.                                 *)

\* The threads make at most MaxCalls calls of entry points altogether.
MaxCalls == 3

\* Mutant: the lock excludes nobody.
CAutoLock_NoExclusion(lock) == TRUE

\* CAutoLock lock(&filter_lock_): the constructor returns once the lock is
\* free.
CAutoLock(lock) == lock = "free"

\* The samples the threads deliver: good ones at each time, and one without
\* a payload.
ThreadSamples ==
    {GoodSample(t) : t \in TimeValues}
        \cup {[GoodSample(7500) EXCEPT !.pointer = "null"]}

\* The proposals negotiated while the threads run: mono float and stereo
\* extensible, and one whose sub-kind is not supported.
ThreadProposals ==
    { p \in AudioProposals :
        /\ p.majortype = "MEDIATYPE_Audio" /\ ~p.bTemporalCompression
        /\ p.formattype = "FORMAT_WaveFormatEx"
        /\ \/ /\ p.subtype = "MEDIASUBTYPE_PCM"
              /\ p.format.format_tag \in {WAVE_FORMAT_IEEE_FLOAT,
                                          WAVE_FORMAT_EXTENSIBLE}
           \/ /\ p.subtype = "MEDIASUBTYPE_I420"
              /\ p.format.format_tag = WAVE_FORMAT_IEEE_FLOAT }

\* The one config the application sets while the threads run.
ThreadRequest == [EmptyAudioConfig EXCEPT !.channels = 2, !.sample_rate = 44100]

\* The members of actual_config_ in the order CheckMediaType assigns them.
StoreOrder ==
    <<"format_tag", "channels", "sample_rate", "bytes_per_second",
      "block_align", "bits_per_sample", "valid_bits_per_sample",
      "channel_mask">>

\* How many of them CheckMediaType assigns for the payload |f|.
StoreCount(f) == IF f.format_tag = WAVE_FORMAT_EXTENSIBLE THEN 8 ELSE 6

ThreadInit == Init /\ endpoint = "audio"

\* What the threads leave alone: the members of the video sink and the
\* records of the single-threaded entry points.
ThreadFrame ==
    UNCHANGED <<endpoint, frame_, out_media_type, cb_calls, cb_buffer,
                cb_return, time_hr, ingest_hr, log_error, accepted,
                ingested>>

\* AudioSinkPin::Receive, up to the lock: the delivery enters the order in
\* which the lock was taken.
Receive_Lock(t, s) ==
    /\ pc[t] = "idle"
    /\ m_Connected
    /\ calls < MaxCalls
    /\ calls' = calls + 1
    /\ CAutoLock(filter_lock_)
    /\ filter_lock_' = t
    /\ pc' = [pc EXCEPT ![t] = "Receive"]
    /\ arg' = [arg EXCEPT ![t] = [id |-> Len(lock_order) + 1]]
    /\ lock_order' =
         Append(lock_order, [id |-> Len(lock_order) + 1, thread |-> t,
                             sample |-> s, done |-> FALSE, ok |-> FALSE])
    /\ ThreadFrame
    /\ UNCHANGED <<m_State, m_Connected, requested_config_, actual_config_,
                   sample_buffer_, op, hr, out_config, cb_order>>

\* AudioSinkPin::Receive, under the lock, to its return.
Receive_Locked(t) ==
    /\ pc[t] = "Receive"
    /\ LET id == arg[t].id
           r == AudioSinkPin_Receive(m_State, actual_config_, sample_buffer_,
                                     lock_order[id].sample)
       IN  /\ sample_buffer_' = r.buffer
           /\ cb_order' =
                IF r.calls = 1
                THEN Append(cb_order, [id |-> id,
                                       timestamp |-> r.arg.timestamp,
                                       buffer_length |-> r.arg.buffer_length])
                ELSE cb_order
           /\ lock_order' =
                [lock_order EXCEPT ![id].done = TRUE,
                                   ![id].ok = (r.ingest_hr = "S_OK")]
    /\ filter_lock_' = "free"
    /\ pc' = [pc EXCEPT ![t] = "idle"]
    /\ ThreadFrame
    /\ UNCHANGED <<m_State, m_Connected, requested_config_, actual_config_,
                   op, hr, out_config, arg, calls>>

\* AudioSinkFilter::set_config, the test of m_State, made before the lock is
\* asked for.
set_config_Check(config) ==
    /\ pc["app"] = "idle"
    /\ calls < MaxCalls
    /\ calls' = calls + 1
    /\ IF m_State # "State_Stopped"
       THEN UNCHANGED <<pc, arg>>
       ELSE /\ pc' = [pc EXCEPT !["app"] = "set_config"]
            /\ arg' = [arg EXCEPT !["app"] = config]
    /\ ThreadFrame
    /\ UNCHANGED <<m_State, m_Connected, requested_config_, actual_config_,
                   sample_buffer_, op, hr, out_config, filter_lock_,
                   lock_order, cb_order>>

\* AudioSinkFilter::set_config, taking the lock.
set_config_Lock ==
    /\ pc["app"] = "set_config"
    /\ CAutoLock(filter_lock_)
    /\ filter_lock_' = "app"
    /\ pc' = [pc EXCEPT !["app"] = "set_config_locked"]
    /\ ThreadFrame
    /\ UNCHANGED <<m_State, m_Connected, requested_config_, actual_config_,
                   sample_buffer_, op, hr, out_config, arg, calls,
                   lock_order, cb_order>>

\* AudioSinkFilter::set_config, under the lock: AudioSinkPin::set_config.
set_config_Locked ==
    /\ pc["app"] = "set_config_locked"
    /\ LET r == AudioSinkPin_set_config(requested_config_, actual_config_,
                                        arg["app"])
       IN  /\ requested_config_' = r.requested_config_
           /\ actual_config_' = r.actual_config_
    /\ filter_lock_' = "free"
    /\ pc' = [pc EXCEPT !["app"] = "idle"]
    /\ ThreadFrame
    /\ UNCHANGED <<m_State, m_Connected, sample_buffer_, op, hr, out_config,
                   arg, calls, lock_order, cb_order>>

\* AudioSinkFilter::config, taking the lock.
config_Lock ==
    /\ pc["app"] = "idle"
    /\ calls < MaxCalls
    /\ calls' = calls + 1
    /\ CAutoLock(filter_lock_)
    /\ filter_lock_' = "app"
    /\ pc' = [pc EXCEPT !["app"] = "config_locked"]
    /\ ThreadFrame
    /\ UNCHANGED <<m_State, m_Connected, requested_config_, actual_config_,
                   sample_buffer_, op, hr, out_config, arg, lock_order,
                   cb_order>>

\* AudioSinkFilter::config, under the lock: AudioSinkPin::config.
config_Locked ==
    /\ pc["app"] = "config_locked"
    /\ out_config' = AudioSinkPin_config(actual_config_, TRUE).out
    /\ filter_lock_' = "free"
    /\ pc' = [pc EXCEPT !["app"] = "idle"]
    /\ ThreadFrame
    /\ UNCHANGED <<m_State, m_Connected, requested_config_, actual_config_,
                   sample_buffer_, op, hr, arg, calls, lock_order, cb_order>>

\* AudioSinkPin::CheckMediaType, the checks.  It asks for no lock.
CheckMediaType_Enter(p) ==
    /\ pc["negotiator"] = "idle"
    /\ calls < MaxCalls
    /\ calls' = calls + 1
    /\ IF AudioCheckMediaType_hr(p) = "S_OK"
       THEN /\ pc' = [pc EXCEPT !["negotiator"] = "CheckMediaType"]
            /\ arg' = [arg EXCEPT !["negotiator"] = [p |-> p, stored |-> 0]]
       ELSE UNCHANGED <<pc, arg>>
    /\ ThreadFrame
    /\ UNCHANGED <<m_State, m_Connected, requested_config_, actual_config_,
                   sample_buffer_, op, hr, out_config, filter_lock_,
                   lock_order, cb_order>>

\* AudioSinkPin::CheckMediaType, the next assignment to a member of
\* actual_config_, and the return after the last.
CheckMediaType_Store ==
    /\ pc["negotiator"] = "CheckMediaType"
    /\ LET f == arg["negotiator"].p.format
           k == arg["negotiator"].stored + 1
           last == (k = StoreCount(f))
       IN  /\ actual_config_' =
                [actual_config_ EXCEPT ![StoreOrder[k]] = f[StoreOrder[k]]]
           /\ arg' = [arg EXCEPT !["negotiator"] =
                        IF last THEN NoProposal
                        ELSE [p |-> arg["negotiator"].p, stored |-> k]]
           /\ pc' = [pc EXCEPT !["negotiator"] =
                        IF last THEN "idle" ELSE "CheckMediaType"]
           /\ m_Connected' = (m_Connected \/ last)
    /\ ThreadFrame
    /\ UNCHANGED <<m_State, requested_config_, sample_buffer_, op, hr,
                   out_config, filter_lock_, calls, lock_order, cb_order>>

\* CBaseFilter::Stop, Pause and Run hold the filter's lock.
LockedStop == CAutoLock(filter_lock_) /\ Stop

LockedPause == CAutoLock(filter_lock_) /\ Pause

LockedRun == CAutoLock(filter_lock_) /\ Run

ThreadNext ==
    \/ \E t \in {"stream1", "stream2"}, s \in ThreadSamples : Receive_Lock(t, s)
    \/ \E t \in {"stream1", "stream2"} : Receive_Locked(t)
    \/ set_config_Check(ThreadRequest)
    \/ set_config_Lock
    \/ set_config_Locked
    \/ config_Lock
    \/ config_Locked
    \/ \E p \in ThreadProposals : CheckMediaType_Enter(p)
    \/ CheckMediaType_Store
    \/ LockedStop
    \/ LockedPause
    \/ LockedRun

ThreadSpec == ThreadInit /\ [][ThreadNext]_vars

-----------------------------------------------------------------------------
(* C13 *)

\* A delivery that has run to its end and was ingested.
Ingested(e) == e.done /\ e.ok

\* C13: whichever threads deliver, the callback invocations are those of the
\* ingested deliveries, one each, in the order in which the deliveries took
\* the lock; each invocation is handed the timestamp and the length of its
\* own sample; and a delivery has returned before the next one takes the
\* lock.
C13_CallbacksInLockOrder ==
    LET ingested_deliveries == SelectSeq(lock_order, Ingested) IN
    /\ Len(cb_order) = Len(ingested_deliveries)
    /\ \A i \in 1..Len(cb_order) :
          /\ i <= Len(ingested_deliveries)
          /\ cb_order[i].id = ingested_deliveries[i].id
          /\ cb_order[i].timestamp =
                media_time_to_milliseconds(
                    ingested_deliveries[i].sample.start_time)
          /\ cb_order[i].buffer_length = ingested_deliveries[i].sample.length
    /\ \A i \in 1..Len(lock_order) :
          i < Len(lock_order) => lock_order[i].done

\* Two deliveries made by different threads, with different start times,
\* were both ingested and dispatched, the first to take the lock first.
C13_Witness ==
    /\ Len(lock_order) = 2
    /\ lock_order[1].thread # lock_order[2].thread
    /\ lock_order[1].sample.start_time > lock_order[2].sample.start_time
    /\ Len(cb_order) = 2
    /\ cb_order[1].id = 1
    /\ cb_order[2].id = 2

-----------------------------------------------------------------------------
(* C17 *)

\* The descriptors actual_config_ holds between two operations: the empty
\* one, and what CheckMediaType leaves of an accepted payload on top of one
\* of them.
CompleteConfigs ==
    LET payloads == {p.format : p \in {q \in ThreadProposals :
                                         AudioCheckMediaType_hr(q) = "S_OK"}}
        stored(S) == S \cup {AudioStoreActual(c, f) : c \in S, f \in payloads}
    IN  stored(stored({EmptyAudioConfig}))

\* C17: what config() returns, and the descriptor a delivery copies into the
\* sample buffer, is always one of the descriptors actual_config_ holds
\* between two operations, never a mix of the members of two of them.
C17_ConfigReadsNotTorn ==
    /\ out_config \in CompleteConfigs
    /\ sample_buffer_.config \in CompleteConfigs

-----------------------------------------------------------------------------
(* C18 *)

\* C18: set_config replaces Requested Configuration and clears Actual
\* Configuration only while the run state is Stopped: when the thread in
\* set_config holds the lock and is about to write, m_State is
\* State_Stopped.
C18_SetConfigWritesOnlyWhenStopped ==
    pc["app"] = "set_config_locked" => m_State = "State_Stopped"

====
